---- MODULE Spec2Model ----
(***************************************************************************)
(* radio.py: a command loop and the loop_guard thread share the globals    *)
(* CURRENT_STATION, PAUSED, PLAYING and one vlc.MediaPlayer.  Both threads *)
(* are modelled statement by statement, so that every interleaving the     *)
(* interpreter can produce between two statements is a behaviour.          *)
(* Times are milliseconds.                                                 *)
(***************************************************************************)
EXTENDS Integers, Sequences, FiniteSets, TLC

\* ------------------------------------------------------------------ catalog

\* STATION_ORDER = list(STATIONS.keys()): the catalog's insertion order.
STATION_ORDER == <<"A", "B">>

\* stations.json: per station the length in whole seconds and the seed.
STATIONS ==
    [A |-> [length |-> 2, seed |-> 0],
     B |-> [length |-> 4, seed |-> 1]]

DEFAULT_STATION == STATION_ORDER[1]

\* DAY_START = day_start(): the reference instant, taken once at import.
DAY_START == 1000

\* loop_guard: pos >= max_len - 1500
GuardMs == 1500

\* loop_guard: time.sleep(1)
SleepMs == 1000

\* start_playback: for _ in range(50)
PollBudget == 50

\* start_playback: time.sleep(0.02)
PollSleepMs == 20

\* Texts the socket can deliver that are neither a station nor a command.
UnknownCommands == {"next", "Z"}

Threads == {"cmd", "mon"}

\* ------------------------------------------------------------ time quantum

RECURSIVE Gcd(_, _)
Gcd(a, b) == IF b = 0 THEN a ELSE Gcd(b, a % b)

\* The clock moves in steps that divide both the monitor's sleep and its
\* guard window.
TimeStep == Gcd(GuardMs, SleepMs)

\* Every live offset is periodic in the common multiple of the lengths, so
\* the clock is kept modulo that period.
LoopPeriod ==
    LET lens == {STATIONS[s].length : s \in DOMAIN STATIONS}
        top  == 24
    IN  1000 * (CHOOSE p \in 1..top :
                  /\ \A l \in lens : p % l = 0
                  /\ \A q \in 1..(p - 1) : \E l \in lens : q % l # 0)

Min(a, b) == IF a < b THEN a ELSE b

\* ---------------------------------------------------------------- live clock

\* The remainder that truncates toward zero (C, Java): negative for a < 0.
PyModTrunc(a, b) == IF a < 0 THEN 0 - ((0 - a) % b) ELSE a % b

\* Python's % on a positive modulus: the result is never negative.
PyMod(a, b) == a % b

\* The live offset without the station's seed.
live_offset_ms_noseed(length, seed, nowMs) ==
    PyMod(nowMs - DAY_START, length * 1000)

\* live_offset: int(((time.time() - DAY_START + seed) % length) * 1000)
live_offset_ms(length, seed, nowMs) ==
    PyMod(nowMs - DAY_START + seed * 1000, length * 1000)

\* live_offset(station) with the clock passed in: (offset_ms, length_ms).
live_offset_at(station, nowMs) ==
    <<live_offset_ms(STATIONS[station].length, STATIONS[station].seed, nowMs),
      STATIONS[station].length * 1000>>

\* -------------------------------------------------------------- track index
\* Texts are sequences of characters.

\* The characters of the texts of the model: a letter, and the two
\* characters strip(" -") removes.
Alphabet == {"a", "-", " "}

\* The longest artist or title, in characters.
MaxText == 2

\* The most entries of a track list.
MaxTracks == 2

\* The latest start of a track, and the latest offset asked for, in seconds.
MaxSec == 2

Texts == UNION {[1..n -> Alphabet] : n \in 0..MaxText}

\* An entry of CUE_DATA[station]; a key parse_cue did not set reads as ''
\* through cur.get(key, '').
Entries == [time : 0..MaxSec, artist : Texts, title : Texts]

\* The track lists in ascending order of time.
TrackLists ==
    {tr \in UNION {[1..n -> Entries] : n \in 0..MaxTracks} :
        \A i \in 1..(Len(tr) - 1) : tr[i].time < tr[i + 1].time}

\* The characters in the argument of .strip(" -").
StripChars == {" ", "-"}

RECURSIVE lstrip(_)
lstrip(s) ==
    IF s # <<>> /\ Head(s) \in StripChars THEN lstrip(Tail(s)) ELSE s

RECURSIVE rstrip(_)
rstrip(s) ==
    IF s # <<>> /\ s[Len(s)] \in StripChars
    THEN rstrip(SubSeq(s, 1, Len(s) - 1))
    ELSE s

\* str.strip(" -"): the leading and the trailing characters of the set go.
strip(s) == rstrip(lstrip(s))

\* f"{cur.get('artist','')} - {cur.get('title','')}".strip(" -")
display(cur) == strip(cur.artist \o <<" ", "-", " ">> \o cur.title)

\* cur = tracks[0]; for t in tracks: if offset >= t["time"]: cur = t
\* else: break.  The index of cur, the loop being at entry i.
RECURSIVE scan(_, _, _, _)
scan(tracks, sec, i, cur) ==
    IF i > Len(tracks) THEN cur
    ELSE IF sec >= tracks[i].time THEN scan(tracks, sec, i + 1, i)
    ELSE cur

\* The entry current_track settles on, tracks being non-empty.
selected(tracks, sec) == tracks[scan(tracks, sec, 1, 1)]

\* current_track(station, offset), tracks being CUE_DATA.get(station, []).
current_track(tracks, sec) ==
    IF tracks = <<>> THEN <<>> ELSE display(selected(tracks, sec))

\* ------------------------------------------------------------ station order

\* STATION_ORDER.index(name), 0-based as in Python.
Index0(name) ==
    (CHOOSE i \in 1..Len(STATION_ORDER) : STATION_ORDER[i] = name) - 1

\* The adjacent station without the wrap at the end of the order.
NextNameNoWrap(name) ==
    STATION_ORDER[Min(Index0(name) + 1, Len(STATION_ORDER) - 1) + 1]

\* next_station: STATION_ORDER[(idx + 1) % len(STATION_ORDER)]
NextName(name) ==
    STATION_ORDER[PyMod(Index0(name) + 1, Len(STATION_ORDER)) + 1]

\* prev_station: STATION_ORDER[(idx - 1) % len(STATION_ORDER)]
PrevName(name) ==
    STATION_ORDER[PyMod(Index0(name) - 1, Len(STATION_ORDER)) + 1]

\* --------------------------------------------------------------- the engine

\* Length of the audio file of a station, as the engine plays it.
AudioMs(media) == STATIONS[media].length * 1000

NoPlayer == [media |-> "none", state |-> "NothingSpecial", pos |-> -1]

\* player.set_media(media): the running input is released.
set_media(p, media) ==
    [media |-> media, state |-> "NothingSpecial", pos |-> -1]

\* player.play(): opens the media unless an input is already running.
play(p) ==
    IF p.media # "none" /\ p.state \in {"NothingSpecial", "Stopped"}
    THEN [p EXCEPT !.state = "Opening", !.pos = 0]
    ELSE p

\* player.set_time(t): seeks the running input; past the end it ends.
set_time(p, t) ==
    IF p.state \in {"Opening", "Playing"}
    THEN IF t >= AudioMs(p.media)
         THEN [p EXCEPT !.state = "Ended", !.pos = AudioMs(p.media)]
         ELSE [p EXCEPT !.pos = t]
    ELSE p

\* player.stop(): no input is left, get_time() answers -1.
stop(p) == [p EXCEPT !.state = "Stopped", !.pos = -1]

\* The engine playing for d milliseconds.
advance(p, d) ==
    IF p.state = "Playing"
    THEN IF p.pos + d >= AudioMs(p.media)
         THEN [p EXCEPT !.state = "Ended", !.pos = AudioMs(p.media)]
         ELSE [p EXCEPT !.pos = p.pos + d]
    ELSE p

Active(p) == p.state \in {"Opening", "Playing"}

\* -------------------------------------------------------------------- state

VARIABLES
    CURRENT_STATION,    \* global CURRENT_STATION
    PAUSED,             \* global PAUSED
    PLAYING,            \* global PLAYING
    player,             \* the vlc.MediaPlayer
    uiState,            \* what CurrentStation.inc holds
    now,                \* time.time(), modulo LoopPeriod
    slept,              \* how long loop_guard has been in time.sleep(1)
    pc,                 \* per thread: the statement it is at
    cmd,                \* command loop: the text received
    name,               \* play_station: its argument
    offset,             \* start_playback, per thread: local offset
    mp3,                \* start_playback, per thread: the station of mp3_abs
    polls,              \* start_playback, per thread: get_state() calls made
    pos,                \* loop_guard: local pos
    max_len,            \* loop_guard: local max_len
    calls,              \* history: engine calls of the command being handled
    writes,             \* history: state-file writes of that command
    startNow,           \* history: the clock when that command read the offset
    undo,               \* history: the last command if it was NEXT or PREV, the
                        \* station it started from, and the station the opposite
                        \* command before it started from
    restartsInWindow,   \* history: monitor restarts since the position last
                        \* was outside the guard window (0, 1, or 2 for more);
                        \* after the first, a restart at the end of the audio
                        \* is not counted
    resumed,            \* history: resume_radio has taken PAUSED off
    qStation, qNow, qOffset,  \* the live-clock probe
    qTracks, qSec, qSong      \* the track-index probe

vars ==
    <<CURRENT_STATION, PAUSED, PLAYING, player, uiState, now, slept, pc, cmd,
      name, offset, mp3, polls, pos, max_len, calls, writes, startNow,
      undo, restartsInWindow, resumed, qStation, qNow, qOffset, qTracks, qSec,
      qSong>>

globals == <<CURRENT_STATION, PAUSED, PLAYING>>
clock == <<now, slept>>
probe == <<qStation, qNow, qOffset, qTracks, qSec, qSong>>
monLocals == <<pos, max_len>>
startLocals == <<offset, mp3, polls>>
history == <<calls, writes, startNow, undo>>

NoUndo == [cmd |-> "none", station |-> "none", origin |-> "none"]

\* The history after command c received at station st: if c follows the
\* opposite command, origin is the station that one started from.
Undo(c, st) ==
    [cmd |-> c, station |-> st,
     origin |-> IF undo.cmd \in {"NEXT", "PREV"} \ {c} THEN undo.station ELSE "none"]

\* -------------------------------------------------------------------- start

ClockValues == {k * TimeStep : k \in 0..((LoopPeriod \div TimeStep) - 1)}

\* The state after the module has run to the accept loop: the state file has
\* been written and play_station(DEFAULT_STATION) has returned at `if PAUSED`.
InitProgram ==
    /\ CURRENT_STATION = DEFAULT_STATION
    /\ PAUSED = TRUE
    /\ PLAYING = FALSE
    /\ player = NoPlayer
    /\ uiState = [CurrentStation |-> DEFAULT_STATION, Paused |-> 1]
    /\ now \in ClockValues
    /\ slept = 0
    /\ pc = [cmd |-> "accept", mon |-> "sleep"]
    /\ cmd = "none"
    /\ name = "none"
    /\ offset = [t \in Threads |-> 0]
    /\ mp3 = [t \in Threads |-> "none"]
    /\ polls = [t \in Threads |-> 0]
    /\ pos = 0
    /\ max_len = 0
    /\ calls = <<>>
    /\ writes = 0
    /\ startNow = 0
    /\ undo = NoUndo
    /\ restartsInWindow = 0
    /\ resumed = FALSE

\* The probe before live_offset has answered.
NoOffset == <<-1, 0>>

\* The probe before current_track has answered.
NoSong == <<"?">>

\* The track-index probe at rest.
NoTrackProbe == qTracks = <<>> /\ qSec = 0 /\ qSong = NoSong

Init ==
    /\ InitProgram
    /\ qStation = DEFAULT_STATION
    /\ qNow = 0
    /\ qOffset = NoOffset
    /\ NoTrackProbe

Goto(t, label) == pc' = [pc EXCEPT ![t] = label]

\* ------------------------------------------------------------- command loop
\* One action per branch of the if/elif chain on cmd.  A handler runs in one
\* step up to its first engine call or its first write of PLAYING: until
\* there it touches only CURRENT_STATION and PAUSED, which no other thread
\* writes, and the state file, which no thread reads.

\* conn, _ = sock.accept(); cmd = conn.recv(32).decode().strip()
Received(c) ==
    /\ pc["cmd"] = "accept"
    /\ cmd' = c
    /\ calls' = <<>>

\* write_ui_state that leaves the file as it is.
write_ui_state_skip(station, paused) ==
    /\ uiState' = uiState
    /\ writes' = 1

\* write_ui_state(), with the globals as the caller has just set them.
write_ui_state(station, paused) ==
    /\ uiState' = [CurrentStation |-> station, Paused |-> IF paused THEN 1 ELSE 0]
    /\ writes' = 1

\* play_station without its `if PAUSED: return`.
play_station_always(n) ==
    /\ name' = n
    /\ CURRENT_STATION' = n
    /\ write_ui_state(n, PAUSED)
    /\ Goto("cmd", "ps_stop")
    /\ UNCHANGED <<PAUSED, PLAYING, player, clock, startLocals, monLocals,
                   startNow, restartsInWindow, probe, resumed>>

\* play_station(name) up to `if PAUSED: return`.
play_station(n) ==
    /\ name' = n
    /\ CURRENT_STATION' = n
    /\ write_ui_state(n, PAUSED)
    /\ Goto("cmd", IF PAUSED THEN "done" ELSE "ps_stop")
    /\ UNCHANGED <<PAUSED, PLAYING, player, clock, startLocals, monLocals,
                   startNow, restartsInWindow, probe, resumed>>

\* The first branch without its test `cmd in STATIONS`.
select_station_any ==
    \E c \in DOMAIN STATIONS \cup UnknownCommands :
        /\ Received(c)
        /\ play_station(c)
        /\ undo' = NoUndo

\* if cmd in STATIONS: play_station(cmd)
select_station ==
    \E c \in DOMAIN STATIONS :
        /\ Received(c)
        /\ play_station(c)
        /\ undo' = NoUndo

\* elif cmd == "NEXT": next_station()
next_station ==
    /\ Received("NEXT")
    /\ play_station(NextName(CURRENT_STATION))
    /\ undo' = Undo("NEXT", CURRENT_STATION)

\* elif cmd == "PREV": prev_station()
prev_station ==
    /\ Received("PREV")
    /\ play_station(PrevName(CURRENT_STATION))
    /\ undo' = Undo("PREV", CURRENT_STATION)

\* pause_radio without its `if not PAUSED`.
pause_radio_always ==
    /\ Received("PAUSE")
    /\ PAUSED' = TRUE
    /\ Goto("cmd", "pa_stop")
    /\ undo' = NoUndo
    /\ UNCHANGED <<CURRENT_STATION, PLAYING, player, uiState, clock, name,
                   startLocals, monLocals, writes, startNow, restartsInWindow,
                   probe, resumed>>

\* elif cmd == "PAUSE": pause_radio(), up to stop_playback()
pause_radio ==
    /\ Received("PAUSE")
    /\ IF ~PAUSED
       THEN PAUSED' = TRUE /\ Goto("cmd", "pa_stop")
       ELSE PAUSED' = PAUSED /\ Goto("cmd", "done")
    /\ undo' = NoUndo
    /\ UNCHANGED <<CURRENT_STATION, PLAYING, player, uiState, clock, name,
                   startLocals, monLocals, writes, startNow, restartsInWindow,
                   probe, resumed>>

\* elif cmd == "PLAY": resume_radio(), up to start_playback()
resume_radio ==
    /\ Received("PLAY")
    /\ IF PAUSED
       THEN /\ PAUSED' = FALSE
            /\ write_ui_state(CURRENT_STATION, FALSE)
            /\ Goto("cmd", "sp_offset")
       ELSE /\ PAUSED' = PAUSED
            /\ Goto("cmd", "done")
            /\ UNCHANGED <<uiState, writes>>
    /\ undo' = NoUndo
    /\ resumed' = (resumed \/ PAUSED)
    /\ UNCHANGED <<CURRENT_STATION, PLAYING, player, clock, name, startLocals,
                   monLocals, startNow, restartsInWindow, probe>>

\* elif cmd == "RESTART": up to stop_playback()
restart ==
    /\ Received("RESTART")
    /\ Goto("cmd", "rs_stop")
    /\ undo' = NoUndo
    /\ UNCHANGED <<globals, player, uiState, clock, name, startLocals,
                   monLocals, writes, startNow, restartsInWindow, probe, resumed>>

\* No branch of the chain matches cmd.
unknown_command ==
    \E c \in UnknownCommands :
        /\ Received(c)
        /\ Goto("cmd", "done")
        /\ undo' = NoUndo
        /\ UNCHANGED <<globals, player, uiState, clock, name, startLocals,
                       monLocals, writes, startNow, restartsInWindow, probe, resumed>>

\* cmd = conn.recv(32).decode().strip() on bytes that are not UTF-8:
\* decode() raises UnicodeDecodeError, which nothing catches.  The main
\* thread ends with the traceback and, loop_guard being a daemon thread, the
\* process ends with it.
recv_undecodable ==
    /\ pc["cmd"] = "accept"
    /\ pc' = [t \in Threads |-> "exited"]
    /\ UNCHANGED <<globals, player, uiState, clock, cmd, name, startLocals,
                   monLocals, history, restartsInWindow, probe, resumed>>

\* stop_playback: player.stop()
stop_playback_stop ==
    /\ pc["cmd"] \in {"ps_stop", "pa_stop", "rs_stop"}
    /\ player' = stop(player)
    /\ calls' = Append(calls, "stop")
    /\ restartsInWindow' = 0
    /\ Goto("cmd", CASE pc["cmd"] = "ps_stop" -> "ps_unflag"
                     [] pc["cmd"] = "pa_stop" -> "pa_unflag"
                     [] pc["cmd"] = "rs_stop" -> "rs_unflag")
    /\ UNCHANGED <<globals, uiState, clock, cmd, name, startLocals, monLocals,
                   writes, startNow, undo, probe, resumed>>

\* stop_playback: PLAYING = False; then the caller's next statement:
\* start_playback() in play_station, write_ui_state() in pause_radio,
\* sock.close() and os._exit(0), which ends both threads, for RESTART.
stop_playback_flag ==
    /\ pc["cmd"] \in {"ps_unflag", "pa_unflag", "rs_unflag"}
    /\ PLAYING' = FALSE
    /\ CASE pc["cmd"] = "ps_unflag" ->
              /\ Goto("cmd", "sp_offset")
              /\ UNCHANGED <<uiState, writes>>
         [] pc["cmd"] = "pa_unflag" ->
              /\ Goto("cmd", "done")
              /\ write_ui_state(CURRENT_STATION, PAUSED)
         [] pc["cmd"] = "rs_unflag" ->
              /\ pc' = [t \in Threads |-> "exited"]
              /\ UNCHANGED <<uiState, writes>>
    /\ UNCHANGED <<CURRENT_STATION, PAUSED, player, clock, cmd, name,
                   startLocals, monLocals, calls, startNow, undo,
                   restartsInWindow, probe, resumed>>

\* The handler has returned; the loop is back at sock.accept().
handled ==
    /\ pc["cmd"] = "done"
    /\ Goto("cmd", "accept")
    /\ cmd' = "none"
    /\ name' = "none"
    /\ calls' = <<>>
    /\ writes' = 0
    /\ startNow' = 0
    /\ offset' = [offset EXCEPT !["cmd"] = 0]
    /\ mp3' = [mp3 EXCEPT !["cmd"] = "none"]
    /\ UNCHANGED <<globals, player, uiState, clock, polls, monLocals, undo,
                   restartsInWindow, probe, resumed>>

\* ------------------------------------------------------------ start_playback
\* Run by the command loop (play_station, resume_radio) and by loop_guard,
\* each with its own locals.

InStart(t) ==
    pc[t] \in {"sp_offset", "sp_mp3", "sp_load", "sp_play", "sp_poll",
               "sp_seek", "sp_flag"}

Logged(t, call) ==
    calls' = IF t = "cmd" THEN Append(calls, call) ELSE calls

\* offset, _ = live_offset(CURRENT_STATION)
start_playback_offset(t) ==
    /\ pc[t] = "sp_offset"
    /\ offset' = [offset EXCEPT ![t] = live_offset_at(CURRENT_STATION, now)[1]]
    /\ startNow' = IF t = "cmd" THEN now ELSE startNow
    /\ Goto(t, "sp_mp3")
    /\ UNCHANGED <<globals, player, uiState, clock, cmd, name, mp3, polls,
                   monLocals, calls, writes, undo, restartsInWindow, probe, resumed>>

\* mp3_abs = os.path.join(BASE, STATIONS[CURRENT_STATION]["mp3"])
start_playback_mp3(t) ==
    /\ pc[t] = "sp_mp3"
    /\ mp3' = [mp3 EXCEPT ![t] = CURRENT_STATION]
    /\ Goto(t, "sp_load")
    /\ UNCHANGED <<globals, player, uiState, clock, cmd, name, offset, polls,
                   monLocals, history, restartsInWindow, probe, resumed>>

\* media = vlc.Media(mp3_abs); player.set_media(media)
start_playback_load(t) ==
    /\ pc[t] = "sp_load"
    /\ player' = set_media(player, mp3[t])
    /\ Logged(t, "load")
    /\ restartsInWindow' = IF t = "cmd" THEN 0 ELSE restartsInWindow
    /\ Goto(t, "sp_play")
    /\ UNCHANGED <<globals, uiState, clock, cmd, name, startLocals, monLocals,
                   writes, startNow, undo, probe, resumed>>

\* player.play()
start_playback_play(t) ==
    /\ pc[t] = "sp_play"
    /\ player' = play(player)
    /\ Logged(t, "play")
    /\ polls' = [polls EXCEPT ![t] = 0]
    /\ Goto(t, "sp_poll")
    /\ UNCHANGED <<globals, uiState, clock, cmd, name, offset, mp3, monLocals,
                   writes, startNow, undo, restartsInWindow, probe, resumed>>

\* The poll loop left at any turn, whatever get_state() answers.
start_playback_nopoll(t) ==
    /\ pc[t] = "sp_poll"
    /\ polls' = [polls EXCEPT ![t] = 0]
    /\ Goto(t, "sp_seek")
    /\ UNCHANGED <<globals, player, uiState, clock, cmd, name, offset, mp3,
                   monLocals, history, restartsInWindow, probe, resumed>>

\* `for _ in range(50)`: a turn whose get_state() sees vlc.State.Playing
\* breaks out of the loop; so does the end of the range.  The turns that do
\* not see it sleep 0.02 s each and are counted by the clock (tick).
start_playback_poll(t) ==
    /\ pc[t] = "sp_poll"
    /\ polls[t] < PollBudget => player.state = "Playing"
    /\ polls' = [polls EXCEPT ![t] = 0]
    /\ Goto(t, "sp_seek")
    /\ UNCHANGED <<globals, player, uiState, clock, cmd, name, offset, mp3,
                   monLocals, history, restartsInWindow, probe, resumed>>

\* player.set_time(offset)
start_playback_seek(t) ==
    /\ pc[t] = "sp_seek"
    /\ player' = set_time(player, offset[t])
    /\ Logged(t, "seek")
    /\ restartsInWindow' = IF t = "mon" /\ offset[t] < max_len - GuardMs
                           THEN 0 ELSE restartsInWindow
    /\ Goto(t, "sp_flag")
    /\ UNCHANGED <<globals, uiState, clock, cmd, name, startLocals, monLocals,
                   writes, startNow, undo, probe, resumed>>

\* The return of start_playback without its `PLAYING = True`.
start_playback_noflag(t) ==
    /\ pc[t] = "sp_flag"
    /\ PLAYING' = PLAYING
    /\ IF t = "cmd"
       THEN /\ Goto(t, "done")
            /\ UNCHANGED <<slept, startLocals, monLocals>>
       ELSE /\ Goto(t, "sleep")
            /\ slept' = 0
            /\ offset' = [offset EXCEPT ![t] = 0]
            /\ mp3' = [mp3 EXCEPT ![t] = "none"]
            /\ polls' = polls
            /\ pos' = 0
            /\ max_len' = 0
    /\ UNCHANGED <<CURRENT_STATION, PAUSED, player, uiState, now, cmd, name,
                   history, restartsInWindow, probe, resumed>>

\* PLAYING = True, and the return to the caller.
start_playback_flag(t) ==
    /\ pc[t] = "sp_flag"
    /\ PLAYING' = TRUE
    /\ IF t = "cmd"
       THEN /\ Goto(t, "done")
            /\ UNCHANGED <<slept, startLocals, monLocals>>
       ELSE /\ Goto(t, "sleep")
            /\ slept' = 0
            /\ offset' = [offset EXCEPT ![t] = 0]
            /\ mp3' = [mp3 EXCEPT ![t] = "none"]
            /\ polls' = polls
            /\ pos' = 0
            /\ max_len' = 0
    /\ UNCHANGED <<CURRENT_STATION, PAUSED, player, uiState, now, cmd, name,
                   history, restartsInWindow, probe, resumed>>

\* --------------------------------------------------------------- loop_guard

Sleep ==
    /\ Goto("mon", "sleep")
    /\ slept' = 0
    /\ pos' = 0
    /\ max_len' = 0
    /\ restartsInWindow' = 0

\* time.sleep(1) is over; `if not PAUSED`
loop_guard_paused ==
    /\ pc["mon"] = "sleep"
    /\ slept >= SleepMs
    /\ IF PAUSED
       THEN Sleep
       ELSE /\ Goto("mon", "m_playing")
            /\ slept' = 0
            /\ UNCHANGED <<monLocals, restartsInWindow>>
    /\ UNCHANGED <<globals, player, uiState, now, cmd, name, startLocals,
                   history, probe, resumed>>

\* `and PLAYING`
loop_guard_playing ==
    /\ pc["mon"] = "m_playing"
    /\ IF PLAYING
       THEN /\ Goto("mon", "m_pos")
            /\ UNCHANGED <<slept, monLocals, restartsInWindow>>
       ELSE Sleep
    /\ UNCHANGED <<globals, player, uiState, now, cmd, name, startLocals,
                   history, probe, resumed>>

\* pos = player.get_time()
loop_guard_pos ==
    /\ pc["mon"] = "m_pos"
    /\ pos' = player.pos
    /\ Goto("mon", "m_len")
    /\ UNCHANGED <<globals, player, uiState, clock, cmd, name, startLocals,
                   max_len, history, restartsInWindow, probe, resumed>>

\* The tick without its test of the guard window: it restarts wherever the
\* position is.
loop_guard_len_always ==
    /\ pc["mon"] = "m_len"
    /\ Goto("mon", "sp_offset")
    /\ max_len' = live_offset_at(CURRENT_STATION, now)[2]
    /\ restartsInWindow' = IF restartsInWindow = 0 THEN 1 ELSE restartsInWindow
    /\ UNCHANGED <<slept, pos>>
    /\ UNCHANGED <<globals, player, uiState, now, cmd, name, startLocals,
                   history, probe, resumed>>

\* _, max_len = live_offset(CURRENT_STATION); if pos >= max_len - 1500
loop_guard_len ==
    /\ pc["mon"] = "m_len"
    /\ LET len == live_offset_at(CURRENT_STATION, now)[2]
       IN  IF pos >= len - GuardMs
           THEN /\ Goto("mon", "sp_offset")
                /\ max_len' = len
                /\ restartsInWindow' =
                     IF restartsInWindow = 0 THEN 1
                     ELSE IF pos < len THEN 2 ELSE restartsInWindow
                /\ UNCHANGED <<slept, pos>>
           ELSE Sleep
    /\ UNCHANGED <<globals, player, uiState, now, cmd, name, startLocals,
                   history, probe, resumed>>

\* ------------------------------------------------------- engine and the clock

\* The engine, some time after play(), reports vlc.State.Playing.
engine_starts ==
    /\ player.state = "Opening"
    /\ player' = [player EXCEPT !.state = "Playing"]
    /\ UNCHANGED <<globals, uiState, clock, pc, cmd, name, startLocals,
                   monLocals, history, restartsInWindow, probe, resumed>>

\* Where a thread lets time pass: the command loop in sock.accept(), the
\* monitor in time.sleep(1) until the second is over, and either in the
\* time.sleep(0.02) of a poll that has not seen the engine playing.  Every
\* other statement runs before the clock moves on.
Waits(t) ==
    \/ t = "cmd" /\ pc[t] = "accept"
    \/ t = "mon" /\ pc[t] = "sleep" /\ slept < SleepMs
    \/ pc[t] = "sp_poll" /\ polls[t] < PollBudget /\ player.state # "Playing"

\* TimeStep milliseconds pass: the wall clock, the audio cursor, the
\* monitor's sleep and the polls' sleeps move together.
tick ==
    /\ \A t \in Threads : Waits(t)
    /\ now' = (now + TimeStep) % LoopPeriod
    /\ player' = advance(player, TimeStep)
    /\ slept' = IF pc["mon"] = "sleep" THEN slept + TimeStep ELSE slept
    /\ polls' = [t \in Threads |->
                   IF pc[t] = "sp_poll"
                   THEN Min(polls[t] + (TimeStep \div PollSleepMs), PollBudget)
                   ELSE polls[t]]
    /\ UNCHANGED <<globals, uiState, pc, cmd, name, offset, mp3, monLocals,
                   history, restartsInWindow, probe, resumed>>

\* ------------------------------------------------------------ the program

CommandStep ==
    \/ select_station
    \/ next_station
    \/ prev_station
    \/ pause_radio
    \/ resume_radio
    \/ restart
    \/ unknown_command
    \/ recv_undecodable
    \/ stop_playback_stop
    \/ stop_playback_flag
    \/ handled

StartStep(t) ==
    \/ start_playback_offset(t)
    \/ start_playback_mp3(t)
    \/ start_playback_load(t)
    \/ start_playback_play(t)
    \/ start_playback_poll(t)
    \/ start_playback_seek(t)
    \/ start_playback_flag(t)

MonitorStep ==
    \/ loop_guard_paused
    \/ loop_guard_playing
    \/ loop_guard_pos
    \/ loop_guard_len

Next ==
    \/ CommandStep
    \/ \E t \in Threads : StartStep(t)
    \/ MonitorStep
    \/ engine_starts
    \/ tick

Spec == Init /\ [][Next]_vars

\* Both threads are scheduled, the engine answers play(), and time passes:
\* no run handles infinitely many commands within one instant, and a poll
\* loop that can leave infinitely often does leave.  Nothing obliges a client
\* to send a command.
FairSpec ==
    /\ Spec
    /\ WF_vars(stop_playback_stop \/ stop_playback_flag \/ handled)
    /\ SF_vars(StartStep("cmd"))
    /\ SF_vars(StartStep("mon"))
    /\ WF_vars(MonitorStep)
    /\ WF_vars(engine_starts)
    /\ SF_vars(tick)

\* ----------------------------------------------------- the live clock alone

\* The largest distance, in ms, of a probed instant from the epoch of the
\* model's clock.
MaxQueryMs == 9000

\* The probe asks for any station at any instant within MaxQueryMs of the
\* epoch, before DAY_START as well as after it.
InitClock ==
    /\ InitProgram
    /\ qStation \in DOMAIN STATIONS
    /\ qNow \in (0 - MaxQueryMs)..MaxQueryMs
    /\ qOffset = NoOffset
    /\ NoTrackProbe

\* live_offset(qStation) at the instant qNow.
query ==
    /\ qOffset = NoOffset
    /\ qOffset' = live_offset_at(qStation, qNow)
    /\ UNCHANGED <<globals, player, uiState, clock, pc, cmd, name, startLocals,
                   monLocals, history, restartsInWindow, qStation, qNow,
                   qTracks, qSec, qSong, resumed>>

SpecClock == InitClock /\ [][query]_vars

\* ---------------------------------------------------- the track index alone

\* The probe asks for any offset from -1 to MaxSec over any track list.
InitTrack ==
    /\ InitProgram
    /\ now = 0
    /\ qStation = DEFAULT_STATION
    /\ qNow = 0
    /\ qOffset = NoOffset
    /\ qTracks \in TrackLists
    /\ qSec \in (0 - 1)..MaxSec
    /\ qSong = NoSong

\* current_track(station, qSec), the station's track list being qTracks.
lookup ==
    /\ qSong = NoSong
    /\ qSong' = current_track(qTracks, qSec)
    /\ UNCHANGED <<globals, player, uiState, clock, pc, cmd, name, startLocals,
                   monLocals, history, restartsInWindow, qStation, qNow,
                   qOffset, qTracks, qSec, resumed>>

SpecTrack == InitTrack /\ [][lookup]_vars

\* ------------------------------------------------------------------ claims

\* Neither thread is inside a handler or a restart.
Quiescent == pc["cmd"] = "accept" /\ pc["mon"] = "sleep"

\* C1: paused == true implies playing == false.  Stated for the states in
\* which no handler and no monitor restart is under way, where the claim asks
\* least: it is claimed of every reachable state.
C1_PausedImpliesNotPlaying ==
    Quiescent => (PAUSED => ~PLAYING)

\* C2: once pause() has completed and until the next resume(), the engine
\* holds no active audio: whenever the command loop is back in accept with
\* PAUSED set, the engine is neither opening nor playing a media.
C2_PausedHoldsNoAudio ==
    (PAUSED /\ pc["cmd"] = "accept") => ~Active(player)

\* C3: whenever the system is Playing and neither a command nor a monitor
\* restart is in progress, the audio loaded in the engine is the audio of
\* CURRENT_STATION.
C3_LoadedAudioIsCurrentStation ==
    (~PAUSED /\ PLAYING /\ pc["cmd"] = "accept" /\ ~InStart("mon"))
        => player.media = CURRENT_STATION

\* C4: a handler that ran play_station(name) (a station name, NEXT or PREV)
\* returns with CURRENT_STATION = name.  Started while paused it returns in
\* the same step, with no engine call made and PAUSED, PLAYING and the engine
\* as they were; started while playing it returns after exactly the calls
\* stop, load, play, seek, the load being of the audio of name, and it never
\* writes PAUSED.
C4_SelectStation ==
    [][ (pc["cmd"] # "done" /\ pc'["cmd"] = "done" /\ name' # "none") =>
          /\ CURRENT_STATION' = name'
          /\ PAUSED' = PAUSED
          /\ IF PAUSED
             THEN /\ pc["cmd"] = "accept"
                  /\ calls' = <<>>
                  /\ PLAYING' = PLAYING
                  /\ player' = player
             ELSE /\ calls' = <<"stop", "load", "play", "seek">>
                  /\ mp3'["cmd"] = name' ]_vars

\* C4 witness: NEXT, received while playing at A, has returned after its
\* stop and its start of B.
C4_Witness ==
    /\ pc["cmd"] = "done"
    /\ cmd = "NEXT"
    /\ ~PAUSED
    /\ CURRENT_STATION = "B"
    /\ mp3["cmd"] = "B"
    /\ calls = <<"stop", "load", "play", "seek">>

\* C5: PAUSE received while paused, and PLAY received while not paused,
\* return at once: no engine call, no write of the state file, and
\* CURRENT_STATION, PAUSED, PLAYING and the engine unchanged.
C5_NoOpPauseResume ==
    [][ ( /\ pc["cmd"] = "accept"
          /\ \/ cmd' = "PAUSE" /\ PAUSED
             \/ cmd' = "PLAY" /\ ~PAUSED ) =>
          /\ pc'["cmd"] = "done"
          /\ calls' = <<>>
          /\ writes' = 0
          /\ UNCHANGED <<globals, player, uiState>> ]_vars

\* C5 witness: a PLAY received while the system was playing has returned
\* without an engine call and without a write of the state file.
C5_Witness ==
    /\ pc["cmd"] = "done"
    /\ cmd = "PLAY"
    /\ ~PAUSED
    /\ PLAYING
    /\ Active(player)
    /\ calls = <<>>
    /\ writes = 0

\* C6: the monitor restarts playback once per crossing of the guard window:
\* it does not restart again on a later tick while the engine is still
\* playing within the window it entered before the first restart.
C6_OneRestartPerCrossing ==
    restartsInWindow <= 1

\* C7: while the system is Playing, an engine that has reached the end of the
\* audio is restarted by the monitor.  Stated for the states in which the
\* engine is at the end and both threads are idle: there the monitor's next
\* look must find its restart condition true (PLAYING set, and the position
\* within GuardMs of the length of CURRENT_STATION); where it does not, every
\* later look sees the same position and the same length, and without a new
\* command playback stays at the end forever.
C7_EndIsRestarted ==
    (Quiescent /\ ~PAUSED /\ player.state = "Ended") =>
        /\ PLAYING
        /\ player.pos >= live_offset_at(CURRENT_STATION, now)[2] - GuardMs

\* C8: the live offset is in [0, durationMs) for every station and every
\* instant, before the reference instant as well as after it.
C8_OffsetInRange ==
    qOffset # NoOffset =>
        /\ qOffset[2] = STATIONS[qStation].length * 1000
        /\ qOffset[1] >= 0
        /\ qOffset[1] < qOffset[2]

\* C8 witness: the clock has answered for an instant so far before the
\* reference instant that the seed does not make up for it.
C8_Witness ==
    /\ qOffset # NoOffset
    /\ qNow - DAY_START + STATIONS[qStation].seed * 1000 < 0
    /\ qOffset[1] > 0

\* C9: the start issued by resume() loads the audio of CURRENT_STATION and
\* seeks to (nowMs - dayStartMs + seed*1000) mod durationMs, nowMs being the
\* instant at which the start read the clock; with a duration of 120000 ms,
\* seed 0 and now = dayStart + 200000 ms that offset is 80000.
C9_ResumeSeeksLiveOffset ==
    /\ live_offset_ms(120, 0, DAY_START + 200000) = 80000
    /\ (cmd = "PLAY" /\ Len(calls) >= 3) =>
          /\ calls = <<"load", "play", "seek">>
          /\ mp3["cmd"] = CURRENT_STATION
          /\ offset["cmd"] =
                (startNow - DAY_START + STATIONS[CURRENT_STATION].seed * 1000)
                    % (STATIONS[CURRENT_STATION].length * 1000)

\* C9 witness: PLAY has returned at station B, whose seed is not a multiple
\* of its length, having sought to an offset other than 0.
C9_Witness ==
    /\ pc["cmd"] = "done"
    /\ cmd = "PLAY"
    /\ CURRENT_STATION = "B"
    /\ calls = <<"load", "play", "seek">>
    /\ offset["cmd"] > 0

\* C10: NEXT directly followed by PREV, and PREV directly followed by NEXT,
\* leave CURRENT_STATION at the station the first of the two started from.
C10_NextPrevRoundTrip ==
    undo.origin # "none" => CURRENT_STATION = undo.origin

\* C10 witness: PREV has undone a NEXT that wrapped from the last station
\* to the first.
C10_Witness ==
    /\ undo = [cmd |-> "PREV", station |-> "A", origin |-> "B"]
    /\ CURRENT_STATION = "B"
    /\ pc["cmd"] = "accept"

\* The entries of the probed list that start at or before the probed offset.
Qualifying == {i \in DOMAIN qTracks : qTracks[i].time <= qSec}

\* C11: current_track answers with the display string of the last entry that
\* starts at or before the offset, and with the empty string when the list is
\* empty or no entry starts at or before the offset.
C11_LastEntryAtOrBefore ==
    qSong # NoSong =>
        qSong = IF Qualifying = {}
                THEN <<>>
                ELSE display(qTracks[CHOOSE i \in Qualifying :
                                        \A j \in Qualifying : j <= i])

\* C12: CURRENT_STATION is a key of the catalog in every reachable state.
C12_CurrentStationInCatalog ==
    CURRENT_STATION \in DOMAIN STATIONS

\* C12 witness: a text that is no station and no command has been received
\* at the last station of the order, reached through a command.
C12_Witness ==
    /\ pc["cmd"] = "done"
    /\ cmd \in UnknownCommands
    /\ CURRENT_STATION = STATION_ORDER[Len(STATION_ORDER)]

\* The texts a branch of the command loop matches.
KnownCommands ==
    DOMAIN STATIONS \cup {"NEXT", "PREV", "PAUSE", "PLAY", "RESTART"}

\* C13: whatever a client sends that is no station name and none of NEXT,
\* PREV, PAUSE, PLAY, RESTART is ignored: the loop leaves accept and returns
\* with no engine call, no write of the state file, CURRENT_STATION, PAUSED,
\* PLAYING, the engine and the state file unchanged, and goes on to accept.
C13_UnknownIgnored ==
    [][ ( /\ pc["cmd"] = "accept"
          /\ pc'["cmd"] # "accept"
          /\ cmd' \notin KnownCommands ) =>
          /\ pc'["cmd"] = "done"
          /\ calls' = <<>>
          /\ writes' = 0
          /\ UNCHANGED <<globals, player, uiState>> ]_vars

\* C14: whenever no command is in progress, the state file holds
\* CURRENT_STATION as the station and PAUSED, as 0 or 1, as the paused flag.
C14_ExportAgrees ==
    pc["cmd"] = "accept" =>
        uiState = [CurrentStation |-> CURRENT_STATION,
                   Paused |-> IF PAUSED THEN 1 ELSE 0]

\* C14 witness: the commands handled so far have left the system playing the
\* last station of the order, and the file says so.
C14_Witness ==
    /\ pc["cmd"] = "accept"
    /\ ~PAUSED
    /\ CURRENT_STATION = STATION_ORDER[Len(STATION_ORDER)]
    /\ uiState = [CurrentStation |-> CURRENT_STATION, Paused |-> 0]

\* C15: the program starts paused, not playing, at the first station of the
\* catalog; and until the first PLAY takes PAUSED off, whatever station
\* names, NEXT, PREV and PAUSE arrive, it stays paused and not playing, the
\* engine holds no media and plays nothing, no thread is in start_playback
\* and the command being handled has issued no load, play or seek.
C15_NoAudioBeforeFirstPlay ==
    /\ PAUSED = TRUE
    /\ PLAYING = FALSE
    /\ CURRENT_STATION = STATION_ORDER[1]
    /\ [](~resumed =>
            /\ PAUSED
            /\ ~PLAYING
            /\ player.media = "none"
            /\ ~Active(player)
            /\ \A t \in Threads : ~InStart(t)
            /\ \A i \in DOMAIN calls : calls[i] \notin {"load", "play", "seek"})

\* C15 witness: before any PLAY, a NEXT and then a PAUSE have been handled
\* and the loop is back in accept at the second station.
C15_Witness ==
    /\ ~resumed
    /\ pc["cmd"] = "done"
    /\ cmd = "PAUSE"
    /\ CURRENT_STATION = STATION_ORDER[2]

\* C20: whenever no command is being executed, PAUSED unset implies PLAYING
\* set.
C20_NotPausedImpliesPlaying ==
    (pc["cmd"] = "accept" /\ ~PAUSED) => PLAYING

\* C20 witness: the monitor is in a restart while no command is being
\* executed and the system is not paused.
C20_Witness ==
    /\ pc["cmd"] = "accept"
    /\ ~PAUSED
    /\ InStart("mon")

\* The display string the claim describes: "artist - title", the title alone
\* when the artist is empty, the artist alone when the title is empty, the
\* texts themselves as they are.
Rendered(artist, title) ==
    IF artist = <<>> THEN title
    ELSE IF title = <<>> THEN artist
    ELSE artist \o <<" ", "-", " ">> \o title

\* C16: the string current_track returns for the entry it settles on is
\* "artist - title", or the non-empty one of the two alone, or the empty
\* string, with the artist and the title unaltered.
C16_DisplayString ==
    (qSong # NoSong /\ qTracks # <<>>) =>
        qSong = Rendered(selected(qTracks, qSec).artist,
                         selected(qTracks, qSec).title)

\* The statements of start_playback in their order, and where it returns to.
StartOrder ==
    {<<"sp_offset", "sp_mp3">>, <<"sp_mp3", "sp_load">>,
     <<"sp_load", "sp_play">>, <<"sp_play", "sp_poll">>,
     <<"sp_poll", "sp_seek">>, <<"sp_seek", "sp_flag">>,
     <<"sp_flag", "done">>, <<"sp_flag", "sleep">>}

\* C17: a start runs load, play, the polls and the seek in this order, once
\* each, unless the process exits under it; it leaves the poll loop only on a
\* poll that saw the engine playing or with the PollBudget polls used up;
\* the polls never exceed PollBudget, and every wait inside the loop uses
\* some of them up, so the loop is left and the seek is issued even if the
\* engine never reports playing.  The command's start has then issued
\* exactly load, play, seek, the load being of the audio it read.
C17_StartSequence ==
    [][ \A t \in Threads :
          /\ polls[t] <= PollBudget
          /\ (InStart(t) /\ pc'[t] # pc[t]) =>
                (<<pc[t], pc'[t]>> \in StartOrder \/ pc'[t] = "exited")
          /\ (pc[t] = "sp_poll" /\ pc'[t] = "sp_seek") =>
                (player.state = "Playing" \/ polls[t] = PollBudget)
          /\ (pc[t] = "sp_poll" /\ now' # now) =>
                (pc'[t] = "sp_poll" /\ polls[t] < polls'[t])
          /\ (pc[t] = "sp_load" /\ pc'[t] = "sp_play") =>
                player'.media = mp3[t]
          /\ (t = "cmd" /\ pc[t] = "sp_seek" /\ pc'[t] = "sp_flag") =>
                /\ Len(calls') >= 3
                /\ SubSeq(calls', Len(calls') - 2, Len(calls')) =
                      <<"load", "play", "seek">>
                /\ \A i \in 1..(Len(calls') - 3) : calls'[i] = "stop" ]_vars

\* C17 witness: the start run by PLAY has issued its seek although the
\* engine, which no other start has touched, never reported playing: the
\* poll loop was left on the exhausted budget.
C17_Witness ==
    /\ pc["cmd"] = "sp_flag"
    /\ cmd = "PLAY"
    /\ calls = <<"load", "play", "seek">>
    /\ ~PLAYING
    /\ pc["mon"] = "sleep"
    /\ player.state = "Opening"

\* The statements of a tick of loop_guard before any restart.
TickLabels == {"sleep", "m_playing", "m_pos", "m_len"}

\* C18: a tick of loop_guard goes on past `not PAUSED` only having read
\* PAUSED unset, past `PLAYING` only having read it set, and into
\* start_playback only with the position it read at or above the length of
\* CURRENT_STATION minus GuardMs; otherwise it returns to its sleep.  Up to
\* there no step of the tick changes CURRENT_STATION, PAUSED, PLAYING, the
\* engine or the state file, whatever the drift.
C18_TickOutsideWindowIsIdle ==
    [][ (pc["mon"] \in TickLabels /\ pc'["mon"] # pc["mon"]
            /\ pc'["mon"] # "exited") =>
          /\ UNCHANGED <<globals, player, uiState>>
          /\ pc'["mon"] \in TickLabels \cup {"sp_offset"}
          /\ pc'["mon"] = "m_playing" => ~PAUSED
          /\ pc'["mon"] = "m_pos" => PLAYING
          /\ pc'["mon"] = "sp_offset" =>
                /\ pc["mon"] = "m_len"
                /\ pos >= STATIONS[CURRENT_STATION].length * 1000 - GuardMs
          /\ (pc["mon"] = "sleep" /\ PAUSED) => pc'["mon"] = "sleep"
          /\ (pc["mon"] = "m_playing" /\ ~PLAYING) => pc'["mon"] = "sleep"
          /\ (pc["mon"] = "m_len"
                /\ pos < STATIONS[CURRENT_STATION].length * 1000 - GuardMs)
                => pc'["mon"] = "sleep" ]_vars

\* C18 witness: playing the current station, the tick has read a position
\* below the guard window that is not the live offset, and is about to
\* return to its sleep.
C18_Witness ==
    /\ pc["mon"] = "m_len"
    /\ pc["cmd"] = "accept"
    /\ ~PAUSED
    /\ PLAYING
    /\ player.media = CURRENT_STATION
    /\ player.state = "Playing"
    /\ pos = player.pos
    /\ pos < STATIONS[CURRENT_STATION].length * 1000 - GuardMs
    /\ pos # live_offset_at(CURRENT_STATION, now)[1]

\* C19: the offset and the audio file of one start belong to the same
\* station, and every seek targets an offset in [0, duration of the audio
\* loaded in the engine at that moment).
C19_SeekWithinLoadedAudio ==
    \A t \in Threads :
        /\ (InStart(t) /\ mp3[t] # "none") =>
              (0 <= offset[t] /\ offset[t] < AudioMs(mp3[t]))
        /\ (pc[t] = "sp_seek" /\ player.media # "none") =>
              (0 <= offset[t] /\ offset[t] < AudioMs(player.media))

====
